---- MODULE Spec2Model ----
(***************************************************************************)
(* photoSort.py: sorting media files into <dest>/<YYYY>/<MM - Mon>/ by the *)
(* date taken.  The model follows main -> process_directory ->             *)
(* process_file -> get_file_date / create_destination_path, one walk entry *)
(* per step.  The filesystem is the state: the source files in walk order, *)
(* the destination files (path, byte size) and the destination             *)
(* directories.  Library calls whose outcome the script cannot decide      *)
(* (what PIL / exifread / ffmpeg read from a file, whether piexif.insert,  *)
(* os.makedirs or shutil.copy2/move raise) are inputs.                     *)
(*                                                                         *)
(* Assumed of the environment: the destination root lies outside the       *)
(* source tree, nothing else touches either tree while the script runs,    *)
(* and destination paths hold regular files only.                          *)
(***************************************************************************)
EXTENDS Integers, Sequences, FiniteSets, TLC

\* ------------------------------------------------------------------ bounds
MaxFiles == 2       \* entries os.walk yields under the source root
MaxRuns == 2        \* invocations of the script on the same trees
MaxFaults == 1      \* filesystem calls that raise, over all the invocations

\* ------------------------------------------------------- program constants
IMAGE_EXTENSIONS == {"jpg", "jpeg", "png", "gif", "tiff", "bmp", "heic", "heif", "dng"}
VIDEO_EXTENSIONS == {"mp4", "mov", "avi", "mkv", "wmv", "m4v", "3gp", "flv"}
MEDIA_EXTENSIONS == IMAGE_EXTENSIONS \cup VIDEO_EXTENSIONS
JPEG_SUFFIXES == {"jpg", "jpeg"}
month_names == <<"Jan", "Feb", "Mar", "Apr", "May", "Jun",
                 "Jul", "Aug", "Sep", "Oct", "Nov", "Dec">>

\* ------------------------------------------------------------- value sets
T1 == [year |-> 2024, month |-> 3]
T2 == [year |-> 2025, month |-> 12]
NoTs == [year |-> 0, month |-> 0]
Timestamps == {T1, T2}

\* Optional datetime: None, or a value.
None == [some |-> FALSE, ts |-> NoTs]
Some(t) == [some |-> TRUE, ts |-> t]

\* What a metadata library finds in a file: it raises (cannot open or decode
\* the file), finds no DateTimeOriginal, finds one that strptime rejects, or
\* finds a well-formed one.
Raise == [k |-> "raise", ts |-> NoTs]
NoTag == [k |-> "notag", ts |-> NoTs]
BadTag == [k |-> "bad", ts |-> NoTs]
Val(t) == [k |-> "val", ts |-> t]
ImageViews == {Raise, NoTag, BadTag} \cup {Val(t) : t \in Timestamps}

\* A creation_time tag of ffprobe's output: absent, the empty string, or a
\* string of one of three shapes.
Absent == [form |-> "absent", ts |-> NoTs]
Empty == [form |-> "empty", ts |-> NoTs]
Garbage == [form |-> "garbage", ts |-> NoTs]
VideoTags == {Absent, Empty, Garbage, [form |-> "isoZ", ts |-> T1],
              [form |-> "spaced", ts |-> T2]}

Modes == {"dry", "copy", "move"}
ExifWrites == {"na", "fail", "grow"}
Faults == {"none", "makedirs", "transfer"}

VARIABLES
    caps,           \* HAS_PIL, HAS_EXIFREAD, HAS_FFMPEG, HAS_PIEXIF
    src,            \* the source tree: a sequence of files in walk order
    dest,           \* the destination files: a set of [path, size]
    destDirs,       \* the directories under the destination root
    destRoot,       \* whether the destination root exists
    pc,             \* "idle", "walking" or "refused"
    mode,           \* the running invocation's --dry-run / --copy
    walk,           \* the entries os.walk still has to yield
    success_count,
    error_count,
    skipped_count,
    log,            \* this run's process_file calls
    last,           \* the latest process_file call in detail
    start,          \* the trees when this run began
    done,           \* the finished runs
    runsLeft,       \* invocations still to come
    faultsLeft      \* filesystem errors still to come

vars == <<caps, src, dest, destDirs, destRoot, pc, mode, walk, success_count,
          error_count, skipped_count, log, last, start, done, runsLeft, faultsLeft>>

\* ------------------------------------------------------------------ paths
YearDir(t) == [year |-> t.year, month |-> 0, name |-> ""]
MonthDir(t) == [year |-> t.year, month |-> t.month, name |-> month_names[t.month]]

Exists(d, p) == \E e \in d : e.path = p
SizeAt(d, p) == (CHOOSE e \in d : e.path = p).size

\* f"{base}_{counter}{ext}" with base, ext = os.path.splitext(dest_path)
Suffixed(p, n) == [p EXCEPT !.sfx = Append(@, n)]

\* ------------------------------------------------------- date extraction
check_dependencies(c) == c.pil \/ c.exifread

\* One strategy: the library's view of the file, with the except clause
\* turning a raise or a strptime failure into "no value from this strategy".
Strategy(available, view) ==
    IF ~available THEN None
    ELSE IF view.k = "val" THEN Some(view.ts)
    ELSE None

\* A variant that asks exifread before PIL.
get_date_taken_from_image_exifread_first(c, f) ==
    LET viaExr == Strategy(c.exifread, f.exr)
    IN  IF viaExr.some THEN viaExr
        ELSE Strategy(c.pil, f.pil)

get_date_taken_from_image(c, f) ==
    LET viaPil == Strategy(c.pil, f.pil)
    IN  IF viaPil.some THEN viaPil
        ELSE Strategy(c.exifread, f.exr)

\* datetime.fromisoformat(s.replace('Z', '+00:00')), then strptime with
\* '%Y-%m-%d %H:%M:%S': fromisoformat accepts any separator character, so
\* the second parser sees only strings the first rejected.
FromIsoFormat(tag) == IF tag.form \in {"isoZ", "spaced"} THEN Some(tag.ts) ELSE None
Strptime(tag) == IF tag.form = "spaced" THEN Some(tag.ts) ELSE None

ParseCreationTime(tag) ==
    IF FromIsoFormat(tag).some THEN FromIsoFormat(tag) ELSE Strptime(tag)

get_date_taken_from_video(c, f) ==
    IF ~c.ffmpeg \/ f.probe = "raise" THEN None
    ELSE LET fromFormat == IF f.fmt.form = "absent" THEN Empty ELSE f.fmt
             creation_time == IF fromFormat.form = "empty" /\ f.str.form # "absent"
                              THEN f.str ELSE fromFormat
         IN  ParseCreationTime(creation_time)

\* add_date_to_exif: piexif.insert rewrites a JPEG file with DateTimeOriginal
\* set, which makes it longer ("grow"); any piexif failure is caught and
\* leaves the file as it was ("fail").
EnrichAttempted(c, f, found) ==
    /\ ~found.some
    /\ f.ext \in IMAGE_EXTENSIONS
    /\ c.pil /\ c.piexif
    /\ f.ext \in JPEG_SUFFIXES

Rewritten(view, t) == IF view.k = "raise" THEN view ELSE Val(t)

add_date_to_exif(f, t, exifWrite) ==
    IF exifWrite = "grow"
    THEN [f EXCEPT !.pil = Rewritten(@, t), !.exr = Rewritten(@, t),
                   !.size = @ + 1]
    ELSE f

\* get_file_date: the date used and the file as the call leaves it.
get_file_date(c, f, exifWrite) ==
    LET found == IF f.ext \in IMAGE_EXTENSIONS THEN get_date_taken_from_image(c, f)
                 ELSE IF f.ext \in VIDEO_EXTENSIONS THEN get_date_taken_from_video(c, f)
                 ELSE None
        date_taken == IF found.some THEN found.ts ELSE f.mtime
        attempted == EnrichAttempted(c, f, found)
    IN  [date |-> date_taken,
         fallback |-> ~found.some,
         attempted |-> attempted,
         file |-> IF attempted THEN add_date_to_exif(f, date_taken, exifWrite) ELSE f]

\* ------------------------------------------------------------ path planning
\* create_destination_path: the path returned (os.makedirs is in ProcessFile).
create_destination_path(date_taken, f) ==
    [dir |-> MonthDir(date_taken), stem |-> f.stem, sfx |-> f.sfx, ext |-> f.ext]

\* The while loop of the conflict branch: probes dest_path, and while it
\* exists moves on to base_counter.
RECURSIVE SuffixLoop(_, _, _, _, _)

\* A variant whose counter advances before the name is built, so that the
\* first name tried is base_2.
SuffixLoopCounterFirst(d, base, dest_path, counter, probes) ==
    IF Exists(d, dest_path)
    THEN SuffixLoop(d, base, Suffixed(base, counter + 1), counter + 2, probes + 1)
    ELSE [path |-> dest_path, counter |-> counter, probes |-> probes + 1]

SuffixLoop(d, base, dest_path, counter, probes) ==
    IF Exists(d, dest_path)
    THEN SuffixLoop(d, base, Suffixed(base, counter), counter + 1, probes + 1)
    ELSE [path |-> dest_path, counter |-> counter, probes |-> probes + 1]

\* A variant without the conflict branch: the canonical path is always used.
ResolveConflictNever(d, canon, size) ==
    [path |-> canon, searched |-> FALSE, probes |-> 0]

\* Lines 220-226: the destination chosen for a source of byte size `size`.
ResolveConflict(d, canon, size) ==
    IF Exists(d, canon) /\ size # SizeAt(d, canon)
    THEN LET r == SuffixLoop(d, canon, canon, 1, 0)
         IN  [path |-> r.path, searched |-> TRUE, probes |-> r.probes]
    ELSE [path |-> canon, searched |-> FALSE, probes |-> 0]

\* Lines 228-231: the skip test on the chosen destination.
SkipsAsPresent(d, dest_path, size) ==
    Exists(d, dest_path) /\ size = SizeAt(d, dest_path)

\* -------------------------------------------------------------- process_file
\* One call of process_file on src[i] in world w = [src, dest, dirs, root].
\* result is what the call returns: "True", "None" (the bare return of the
\* skip branch) or "False" (the except clause).
ProcessFile(c, w, i, m, exifWrite, fault) ==
    LET gd == get_file_date(c, w.src[i], exifWrite)
        f == gd.file
        canon == create_destination_path(gd.date, f)
        needDirs == {YearDir(gd.date), MonthDir(gd.date)}
        mkFails == fault = "makedirs"
        dirs1 == IF mkFails THEN w.dirs ELSE w.dirs \cup needDirs
        root1 == IF mkFails THEN w.root ELSE TRUE
        rc == ResolveConflict(w.dest, canon, f.size)
        skip == SkipsAsPresent(w.dest, rc.path, f.size)
        transfers == ~mkFails /\ ~skip /\ m # "dry"
        xferFails == transfers /\ fault = "transfer"
        written == transfers /\ ~xferFails
        src1 == [w.src EXCEPT ![i] = IF written /\ m = "move"
                                     THEN [f EXCEPT !.present = FALSE] ELSE f]
        dest1 == IF written THEN w.dest \cup {[path |-> rc.path, size |-> f.size]}
                 ELSE w.dest
    IN  [world |-> [src |-> src1, dest |-> dest1, dirs |-> dirs1, root |-> root1],
         result |-> IF mkFails \/ xferFails THEN "False"
                    ELSE IF skip THEN "None" ELSE "True",
         resolved |-> ~mkFails,
         canon |-> canon,
         dest_path |-> rc.path,
         searched |-> ~mkFails /\ rc.searched,
         probes |-> rc.probes,
         action |-> IF mkFails \/ skip THEN "none"
                    ELSE IF m = "dry" THEN "would"
                    ELSE IF xferFails THEN "failed" ELSE m,
         date |-> gd.date,
         fallback |-> gd.fallback,
         attempted |-> gd.attempted,
         \* which inputs the call consulted
         exifWriteUsed |-> gd.attempted,
         mkdirUsed |-> ~(w.root /\ needDirs \subseteq w.dirs),
         transferUsed |-> transfers]

\* The inputs are the outcomes of calls the run really makes.
InputsFit(r, exifWrite, fault) ==
    /\ (exifWrite = "na") <=> ~r.exifWriteUsed
    /\ fault = "makedirs" => r.mkdirUsed
    /\ fault = "transfer" => r.transferUsed

World == [src |-> src, dest |-> dest, dirs |-> destDirs, root |-> destRoot]

\* ------------------------------------------------------------------- files
File(stem, sfx, ext, size, mtime, pil, exr, fmt, str, probe) ==
    [stem |-> stem, sfx |-> sfx, ext |-> ext, size |-> size, mtime |-> mtime,
     pil |-> pil, exr |-> exr, fmt |-> fmt, str |-> str, probe |-> probe,
     present |-> TRUE]

\* Source trees of same-named files dated by their metadata, one JPEG
\* without metadata and one file that is no media file.
PipelineFiles ==
    {File("a", <<>>, "jpg", size, T1, Val(T1), Val(T1), Absent, Absent, "ok") :
        size \in {1, 2}}
    \cup {File("a", <<>>, "jpg", 1, T1, NoTag, NoTag, Absent, Absent, "ok"),
          File("notes", <<>>, "txt", 1, T1, NoTag, NoTag, Absent, Absent, "ok")}

\* Single files of every metadata shape.
DateFiles ==
    {File("a", <<>>, ext, 1, mtime, pil, exr, Absent, Absent, "ok") :
        ext \in {"jpg", "png"}, mtime \in Timestamps,
        pil \in ImageViews, exr \in ImageViews}
    \cup {File("a", <<>>, "mp4", 1, mtime, NoTag, NoTag, fmt, str, probe) :
        mtime \in Timestamps, fmt \in VideoTags, str \in VideoTags,
        probe \in {"ok", "raise"}}

CapSets == [pil : BOOLEAN, exifread : BOOLEAN, ffmpeg : BOOLEAN, piexif : BOOLEAN]
AllCaps == [pil |-> TRUE, exifread |-> TRUE, ffmpeg |-> TRUE, piexif |-> TRUE]

CanonA == [dir |-> MonthDir(T1), stem |-> "a", sfx |-> <<>>, ext |-> "jpg"]
InitDestPaths == {CanonA, Suffixed(CanonA, 1)}
InitDests ==
    {d \in SUBSET [path : InitDestPaths, size : {1, 2}] :
        /\ \A e1, e2 \in d : e1.path = e2.path => e1 = e2
        /\ \A e \in d : e.path = CanonA => e.size = 1}

DirsOf(d) == UNION {{YearDir(e.path.dir), e.path.dir} : e \in d}

NoCall == [idx |-> 0, mode |-> "dry", result |-> "True", resolved |-> FALSE,
           canon |-> CanonA, dest_path |-> CanonA,
           searched |-> FALSE, probes |-> 0, action |-> "none", date |-> NoTs,
           fallback |-> FALSE, attempted |-> FALSE, exifWrite |-> "na",
           fault |-> "none", before |-> {},
           fileBefore |-> File("a", <<>>, "txt", 1, T1, NoTag, NoTag, Absent, Absent, "ok"),
           fileAfter |-> File("a", <<>>, "txt", 1, T1, NoTag, NoTag, Absent, Absent, "ok")]

Init ==
    /\ \/ /\ caps = AllCaps
          /\ src \in [1..MaxFiles -> PipelineFiles]
          /\ dest \in InitDests
          /\ runsLeft = MaxRuns
       \/ /\ caps \in CapSets
          /\ src \in [1..1 -> DateFiles]
          /\ dest = {}
          /\ runsLeft = 1
    /\ destDirs = DirsOf(dest)
    /\ destRoot = (dest # {})
    /\ pc = "idle"
    /\ mode = "dry"
    /\ walk = <<>>
    /\ success_count = 0
    /\ error_count = 0
    /\ skipped_count = 0
    /\ log = <<>>
    /\ last = NoCall
    /\ start = World
    /\ done = <<>>
    /\ faultsLeft = MaxFaults

\* ------------------------------------------------------------------- main
\* main: check_dependencies() failed, sys.exit(1) before any file is touched.
MainRefused ==
    /\ pc = "idle" /\ runsLeft > 0
    /\ ~check_dependencies(caps)
    /\ pc' = "refused"
    /\ runsLeft' = runsLeft - 1
    /\ UNCHANGED <<caps, src, dest, destDirs, destRoot, mode, walk, success_count,
                   error_count, skipped_count, log, last, start, done, faultsLeft>>

\* The files os.walk yields: those still in the source tree, in walk order.
RECURSIVE WalkFrom(_, _)
WalkFrom(s, i) ==
    IF i > Len(s) THEN <<>>
    ELSE IF s[i].present THEN <<i>> \o WalkFrom(s, i + 1)
    ELSE WalkFrom(s, i + 1)

\* main up to the loop of process_directory: os.makedirs(args.destination),
\* the counters set to zero.
StartRun(m) ==
    /\ pc = "idle" /\ runsLeft > 0
    /\ check_dependencies(caps)
    /\ pc' = "walking"
    /\ runsLeft' = runsLeft - 1
    /\ mode' = m
    /\ destRoot' = TRUE
    /\ walk' = WalkFrom(src, 1)
    /\ success_count' = 0 /\ error_count' = 0 /\ skipped_count' = 0
    /\ log' = <<>>
    /\ start' = World
    /\ UNCHANGED <<caps, src, dest, destDirs, last, done, faultsLeft>>

\* `if result:` of process_directory.
Truthy(result) == result = "True"

\* One media entry of the walk: process_file and the counting of its result.
ProcessMedia(exifWrite, fault) ==
    /\ pc = "walking" /\ walk # <<>>
    /\ src[Head(walk)].ext \in MEDIA_EXTENSIONS
    /\ \E i \in {Head(walk)} :
       \E r \in {ProcessFile(caps, World, i, mode, exifWrite, fault)} :
           /\ InputsFit(r, exifWrite, fault)
           /\ src' = r.world.src
           /\ dest' = r.world.dest
           /\ destDirs' = r.world.dirs
           /\ destRoot' = r.world.root
           /\ success_count' = IF Truthy(r.result) THEN success_count + 1 ELSE success_count
           /\ error_count' = IF Truthy(r.result) THEN error_count ELSE error_count + 1
           /\ log' = Append(log, [idx |-> i, result |-> r.result, resolved |-> r.resolved,
                                  dest_path |-> r.dest_path, action |-> r.action,
                                  exifWrite |-> exifWrite, fault |-> fault])
           /\ last' = [idx |-> i, mode |-> mode, result |-> r.result,
                       resolved |-> r.resolved, canon |-> r.canon,
                       dest_path |-> r.dest_path, searched |-> r.searched,
                       probes |-> r.probes, action |-> r.action, date |-> r.date,
                       fallback |-> r.fallback, attempted |-> r.attempted,
                       exifWrite |-> exifWrite, fault |-> fault, before |-> dest,
                       fileBefore |-> src[i], fileAfter |-> r.world.src[i]]
    /\ fault # "none" => faultsLeft > 0
    /\ faultsLeft' = IF fault = "none" THEN faultsLeft ELSE faultsLeft - 1
    /\ walk' = Tail(walk)
    /\ UNCHANGED <<caps, pc, mode, skipped_count, start, done, runsLeft>>

\* One entry that is no media file: counted, left alone.
SkipNonMedia ==
    /\ pc = "walking" /\ walk # <<>>
    /\ src[Head(walk)].ext \notin MEDIA_EXTENSIONS
    /\ skipped_count' = skipped_count + 1
    /\ walk' = Tail(walk)
    /\ UNCHANGED <<caps, src, dest, destDirs, destRoot, pc, mode, success_count,
                   error_count, log, last, start, done, runsLeft, faultsLeft>>

\* The return value of process_directory; main exits 0 on it, 1 otherwise.
RunSucceeded(successes, errors) == successes > 0 /\ errors = 0

\* The walk is over: the summary and the exit status.
Finish ==
    /\ pc = "walking" /\ walk = <<>>
    /\ pc' = "idle"
    /\ done' = Append(done, [mode |-> mode, start |-> start, end |-> World,
                             success |-> success_count, errors |-> error_count,
                             skipped |-> skipped_count, log |-> log,
                             exit |-> IF RunSucceeded(success_count, error_count)
                                      THEN 0 ELSE 1])
    /\ UNCHANGED <<caps, src, dest, destDirs, destRoot, mode, walk, success_count,
                   error_count, skipped_count, log, last, start, runsLeft, faultsLeft>>

Next ==
    \/ MainRefused
    \/ \E m \in Modes : StartRun(m)
    \/ \E exifWrite \in ExifWrites, fault \in Faults : ProcessMedia(exifWrite, fault)
    \/ SkipNonMedia
    \/ Finish

Spec == Init /\ [][Next]_vars

\* =================================================================== claims
LastCall == last.idx # 0
NoFalse(l) == \A j \in DOMAIN l : l[j].result # "False"
NoFault(l) == \A j \in DOMAIN l : l[j].fault = "none"
NoExifWrite(l) == \A j \in DOMAIN l : l[j].exifWrite = "na"
LastSuffix(p) == p.sfx[Len(p.sfx)]

\* C1: after a complete copy run into an empty destination, a second copy run
\* over the unchanged source tree only skips and leaves the destination as
\* it was (stated for runs in which no file was up for an EXIF write, so
\* that the source files are the same bytes throughout).
C1_SecondRunOnlySkips ==
    (/\ Len(done) >= 2
     /\ done[1].mode = "copy" /\ done[2].mode = "copy"
     /\ done[1].start.dest = {}
     /\ NoFalse(done[1].log)
     /\ NoExifWrite(done[1].log) /\ NoExifWrite(done[2].log)
     /\ done[2].start.src = done[1].start.src)
    => /\ \A j \in DOMAIN done[2].log : done[2].log[j].result = "None"
       /\ done[2].end.dest = done[2].start.dest

\* C2: a dry run leaves the files and directories under the destination
\* root as they were when it began.
C2_DryRunLeavesDestination ==
    /\ (pc = "walking" /\ mode = "dry")
         => (dest = start.dest /\ destDirs = start.dirs)
    /\ \A k \in DOMAIN done :
         done[k].mode = "dry"
         => (done[k].end.dest = done[k].start.dest
             /\ done[k].end.dirs = done[k].start.dirs)

\* C3: a file skipped as already present is no failure: the error count is
\* the number of calls that hit a filesystem error, and a run with a
\* processed file and no such error exits 0.
C3_SkipIsNotFailure ==
    /\ pc = "walking"
         => error_count = Cardinality({j \in DOMAIN log : log[j].result = "False"})
    /\ \A k \in DOMAIN done :
         (done[k].success > 0 /\ NoFalse(done[k].log)) => done[k].exit = 0

\* C4: within one run, in every mode, no two source files that are not
\* skipped are resolved to the same destination path (stated for the files
\* process_file reports as processed, so that no filesystem error is
\* involved).
C4_NoTwoEqualDestinations ==
    \A i, j \in DOMAIN log :
        (i < j /\ log[i].result = "True" /\ log[j].result = "True")
        => log[i].dest_path # log[j].dest_path

\* C5: a copy or move goes to a path that did not exist just before it, a
\* path holding a file of another size is never the chosen destination, and
\* every file the destination tree held is still there with its size.
C5_NoOverwrite ==
    /\ (LastCall /\ last.action \in {"copy", "move"})
         => ~Exists(last.before, last.dest_path)
    /\ (LastCall /\ last.resolved /\ last.result # "None")
         => ~(/\ Exists(last.before, last.dest_path)
              /\ SizeAt(last.before, last.dest_path) # last.fileAfter.size)
    /\ LastCall => last.before \subseteq dest
    /\ start.dest \subseteq dest
    /\ \A k \in DOMAIN done : done[k].start.dest \subseteq dest
    /\ \A e1, e2 \in dest : e1.path = e2.path => e1 = e2

\* C5 witness: a file was copied under a suffixed name next to a file of
\* another size that kept its place.
C5_Witness ==
    /\ LastCall /\ last.action = "copy" /\ last.searched
    /\ Exists(dest, last.canon) /\ Exists(dest, last.dest_path)
    /\ SizeAt(dest, last.canon) # SizeAt(dest, last.dest_path)

\* C6: the suffix search stops at the first suffixed path that is free or
\* holds a file of the source's size; it never passes over a same-size file.
C6_SearchStopsAtSameSize ==
    (LastCall /\ last.searched)
    => /\ \A k \in 1..(LastSuffix(last.dest_path) - 1) :
            /\ Exists(last.before, Suffixed(last.canon, k))
            /\ SizeAt(last.before, Suffixed(last.canon, k)) # last.fileAfter.size
       /\ Exists(last.before, last.dest_path) => last.result = "None"

\* C7: a dry run reports as many processed files as the real run started
\* from the same trees (stated for a real run without filesystem errors and
\* for runs in which no file was up for an EXIF write).
C7_DryRunCountAgrees ==
    (/\ Len(done) >= 2
     /\ done[1].mode = "dry" /\ done[2].mode # "dry"
     /\ done[2].start = done[1].start
     /\ NoExifWrite(done[1].log) /\ NoExifWrite(done[2].log)
     /\ NoFault(done[2].log))
    => done[1].success = done[2].success

\* The strategies in their fixed order, and what each yields for a file.
StrategyOrder(f) ==
    IF f.ext \in IMAGE_EXTENSIONS THEN <<"PIL", "exifread">>
    ELSE IF f.ext \in VIDEO_EXTENSIONS THEN <<"ffmpeg">>
    ELSE <<>>

VideoTagRead(f) ==
    IF f.fmt.form \in {"absent", "empty"} /\ f.str.form # "absent" THEN f.str ELSE f.fmt

Yield(c, f, s) ==
    CASE s = "PIL" -> IF c.pil /\ f.pil.k = "val" THEN Some(f.pil.ts) ELSE None
      [] s = "exifread" -> IF c.exifread /\ f.exr.k = "val" THEN Some(f.exr.ts) ELSE None
      [] s = "ffmpeg" -> IF c.ffmpeg /\ f.probe = "ok"
                            /\ VideoTagRead(f).form \in {"isoZ", "spaced"}
                         THEN Some(VideoTagRead(f).ts) ELSE None

FirstYield(c, f) ==
    LET order == StrategyOrder(f)
        yielding == {k \in DOMAIN order : Yield(c, f, order[k]).some}
    IN  IF yielding = {} THEN None
        ELSE Yield(c, f, order[CHOOSE k \in yielding : \A k2 \in yielding : k <= k2])

\* C8: the date of a media file is the value of the first strategy, in the
\* fixed order, that yields one, and the modification time when none does;
\* the call fails for no lack of metadata, and the date is the same whatever
\* becomes of the EXIF write.
C8_DateIsFirstYieldOrMtime ==
    LastCall =>
        /\ last.date = IF FirstYield(caps, last.fileBefore).some
                       THEN FirstYield(caps, last.fileBefore).ts
                       ELSE last.fileBefore.mtime
        /\ last.fallback = ~FirstYield(caps, last.fileBefore).some
        /\ last.date \in Timestamps
        /\ last.fault = "none" => last.result # "False"

\* C8 witness: PIL was available and gave no value, and exifread's value,
\* which is not the modification time, was used.
C8_Witness ==
    /\ LastCall
    /\ caps.pil /\ last.fileBefore.pil.k \in {"raise", "bad"}
    /\ caps.exifread /\ last.fileBefore.exr.k = "val"
    /\ last.date = last.fileBefore.exr.ts
    /\ last.date # last.fileBefore.mtime

\* The files at the canonical path and at its suffixed variants.
Colliding(d, canon) ==
    {e \in d : \/ e.path = canon
               \/ \E n \in 1..(Cardinality(d) + 1) : e.path = Suffixed(canon, n)}

\* C9: the suffix search ends at the smallest n >= 1 whose suffixed path
\* does not exist, after at most (colliding files + 1) probes.
C9_SmallestFreeSuffix ==
    (LastCall /\ last.searched)
    => /\ Len(last.dest_path.sfx) = Len(last.canon.sfx) + 1
       /\ LastSuffix(last.dest_path) >= 1
       /\ last.dest_path = Suffixed(last.canon, LastSuffix(last.dest_path))
       /\ ~Exists(last.before, last.dest_path)
       /\ \A k \in 1..(LastSuffix(last.dest_path) - 1) :
            Exists(last.before, Suffixed(last.canon, k))
       /\ last.probes = LastSuffix(last.dest_path) + 1
       /\ last.probes <= Cardinality(Colliding(last.before, last.canon)) + 1

\* C9 witness: a search that went past an occupied first suffix.
C9_Witness ==
    /\ LastCall /\ last.searched
    /\ LastSuffix(last.dest_path) >= 2
    /\ last.probes = Cardinality(Colliding(last.before, last.canon)) + 1

\* C10: a dry-run call of process_file leaves the source file as it was.
C10_DryRunLeavesSource ==
    (LastCall /\ last.mode = "dry") => last.fileAfter = last.fileBefore
====
